---- MODULE Spec2Model ----
(***************************************************************************)
(* The hunty-core contract: the hunt lifecycle controller (lib.rs) over    *)
(* the persistent key-value storage layer (storage.rs) and the domain      *)
(* types (types.rs).                                                       *)
(*                                                                         *)
(* A soroban String is represented by its length, the only thing the      *)
(* contract reads of it.  An Option is a sequence of length 0 or 1.        *)
(* A Result is a record [ok, val] or [ok, err].                            *)
(***************************************************************************)
EXTENDS Integers, Sequences, FiniteSets, TLC

VARIABLES
    persistent,   \* env.storage().persistent(): a map from keys to values
    timestamp,    \* env.ledger().timestamp()
    events,       \* env.events(): the events the latest invocation published
    last,         \* the latest invocation: its operation and arguments, the
                  \* storage it started from, and the Result it returned
    inflight      \* the invocations submitted together and what each has
                  \* returned so far (none while calls come one at a time)

vars == <<persistent, timestamp, events, last, inflight>>

----------------------------------------------------------------------------
(* Bounds of the model *)

MaxHunts == 2      \* create_hunt succeeds at most this many times
MaxTime == 1       \* the ledger clock runs over 0..MaxTime
MaxClues == 1      \* total_clues of a hunt is raised at most to this
MaxRounds == 3     \* at most this many pairs of invocations are submitted
MaxClueId == 2     \* the clue ids of a hunt run over 1..MaxClueId
MaxPoints == 2     \* the points of a clue run over 1..MaxPoints
MaxPool == 12      \* xlm_pool runs over -MaxPool..MaxPool (and +-10_000)
MaxWinners == 3    \* max_winners runs over 0..MaxWinners

Addresses == {"a1", "a2"}

\* The hunt ids callers pass: every id that can exist, and one that never does.
HuntIds == 1..(MaxHunts + 1)

\* The create_hunt calls that are made: the two ends of the ranges of valid
\* title and description lengths, and lengths just outside them; end_time
\* absent and present.
CreateCalls ==
    { [creator |-> "a1", title |-> 1,   description |-> 0,    end_time |-> <<>>],
      [creator |-> "a2", title |-> 200, description |-> 2000, end_time |-> <<1>>],
      [creator |-> "a1", title |-> 0,   description |-> 0,    end_time |-> <<>>],
      [creator |-> "a2", title |-> 201, description |-> 2000, end_time |-> <<1>>],
      [creator |-> "a1", title |-> 200, description |-> 2001, end_time |-> <<>>],
      [creator |-> "a2", title |-> 0,   description |-> 2001, end_time |-> <<1>>] }

----------------------------------------------------------------------------
(* Option and Result *)

None == <<>>
Some(v) == <<v>>
unwrap_or(opt, default) == IF opt = None THEN default ELSE opt[1]

Unit == <<>>
Ok(v) == [ok |-> TRUE, val |-> v]
Err(e) == [ok |-> FALSE, err |-> e]

----------------------------------------------------------------------------
(* types.rs *)

HuntStatus == {"Draft", "Active", "Completed", "Cancelled"}

\* RewardConfig::new that starts with one reward claimed.
RewardConfig_new_claimed_one(xlm_pool, nft_enabled, nft_contract, max_winners) ==
    [ xlm_pool      |-> xlm_pool,
      nft_enabled   |-> nft_enabled,
      nft_contract  |-> nft_contract,
      max_winners   |-> max_winners,
      claimed_count |-> 1 ]

RewardConfig_new(xlm_pool, nft_enabled, nft_contract, max_winners) ==
    [ xlm_pool      |-> xlm_pool,
      nft_enabled   |-> nft_enabled,
      nft_contract  |-> nft_contract,
      max_winners   |-> max_winners,
      claimed_count |-> 0 ]

Location_default == [latitude |-> 0, longitude |-> 0, radius |-> 0]

\* The PlayerProgress of a player who has just registered.
PlayerProgress_new(player, hunt_id, current_time) ==
    [ player          |-> player,
      hunt_id         |-> hunt_id,
      completed_clues |-> <<>>,
      total_score     |-> 0,
      started_at      |-> current_time,
      completed_at    |-> 0,
      is_completed    |-> FALSE,
      reward_claimed  |-> FALSE ]

has_completed_clue(progress, clue_id) ==
    \E i \in 1..Len(progress.completed_clues) :
        progress.completed_clues[i] = clue_id

\* complete_clue that does not look whether the clue was completed before.
complete_clue_unchecked(progress, clue_id, points) ==
    [progress EXCEPT !.completed_clues = Append(@, clue_id),
                     !.total_score = @ + points]

\* complete_clue that sets the score to the points instead of adding them.
complete_clue_score_assigned(progress, clue_id, points) ==
    IF ~has_completed_clue(progress, clue_id)
    THEN [progress EXCEPT !.completed_clues = Append(@, clue_id),
                          !.total_score = points]
    ELSE progress

\* The progress after complete_clue.  total_score is a u32; the scores of the
\* model stay far below 2^32, where the addition would overflow.
complete_clue(progress, clue_id, points) ==
    IF ~has_completed_clue(progress, clue_id)
    THEN [progress EXCEPT !.completed_clues = Append(@, clue_id),
                          !.total_score = @ + points]
    ELSE progress

\* A u32 is held as its two 16-bit halves: the value is hi * 2^16 + lo.
U16_RANGE == 65536

u32(hi, lo) == [hi |-> hi, lo |-> lo]

U32_MAX == u32(U16_RANGE - 1, U16_RANGE - 1)

\* The sum of two u32 in 32 bits, and whether it left the range.
u32_add(a, b) ==
    LET lo == a.lo + b.lo
        hi == a.hi + b.hi + (lo \div U16_RANGE)
    IN  [ overflow |-> hi >= U16_RANGE,
          value    |-> u32(hi % U16_RANGE, lo % U16_RANGE) ]

\* complete_clue as a build runs it on a u32 total_score. Where the sum does
\* not fit, `+=` panics in a build with overflow checks (the debug and test
\* profiles, a release profile that sets overflow-checks) and keeps the low
\* 32 bits of the sum in a build without.
complete_clue_build(progress, clue_id, points, overflow_checks) ==
    IF has_completed_clue(progress, clue_id) THEN Ok(progress)
    ELSE LET sum == u32_add(progress.total_score, points)
         IN  IF sum.overflow /\ overflow_checks
             THEN Err("panic: attempt to add with overflow")
             ELSE Ok([progress EXCEPT !.completed_clues = Append(@, clue_id),
                                      !.total_score = sum.value])

\* is_active with the end of the window counted in.
is_active_inclusive(hunt, current_time) ==
    hunt.status = "Active" /\ (hunt.end_time = 0 \/ current_time <= hunt.end_time)

is_active(hunt, current_time) ==
    hunt.status = "Active" /\ (hunt.end_time = 0 \/ current_time < hunt.end_time)

\* The / of i128: the quotient rounded toward zero.  (The divisor is never 0
\* where this is used, and never -1.)
i128_div(a, b) ==
    LET abs(x) == IF x < 0 THEN -x ELSE x
        q      == abs(a) \div abs(b)
    IN  IF (a < 0) = (b < 0) THEN q ELSE -q

\* reward_per_winner with the quotient rounded down (div_euclid for /).
reward_per_winner_div_euclid(config) ==
    IF config.max_winners = 0 THEN 0
    ELSE config.xlm_pool \div config.max_winners

reward_per_winner(config) ==
    IF config.max_winners = 0 THEN 0
    ELSE i128_div(config.xlm_pool, config.max_winners)

----------------------------------------------------------------------------
(* storage.rs *)

HUNT_KEY == "HUNT"
HUNT_COUNTER_KEY == <<"CNTR">>

storage_get(store, key) ==
    IF key \in DOMAIN store THEN Some(store[key]) ELSE None

storage_set(store, key, value) ==
    [k \in (DOMAIN store) \cup {key} |-> IF k = key THEN value ELSE store[k]]

hunt_key(hunt_id) == <<HUNT_KEY, hunt_id>>

save_hunt(store, hunt) == storage_set(store, hunt_key(hunt.hunt_id), hunt)

get_hunt(store, hunt_id) == storage_get(store, hunt_key(hunt_id))

get_hunt_counter(store) == unwrap_or(storage_get(store, HUNT_COUNTER_KEY), 0)

\* next_hunt_id that hands out the counter's value and then stores it: the
\* id returned is the one stored before, not the new one.
next_hunt_id_returns_current(store) ==
    LET current == unwrap_or(storage_get(store, HUNT_COUNTER_KEY), 0)
    IN  [store |-> storage_set(store, HUNT_COUNTER_KEY, current), id |-> current + 1]

\* next_hunt_id that forgets to write the counter back.
next_hunt_id_not_stored(store) ==
    LET current == unwrap_or(storage_get(store, HUNT_COUNTER_KEY), 0)
    IN  [store |-> store, id |-> current + 1]

\* Reads the counter (0 when absent), stores and returns current + 1.  The
\* counter is a u64; MaxHunts keeps it far from 2^64.
next_hunt_id(store) ==
    LET current == unwrap_or(storage_get(store, HUNT_COUNTER_KEY), 0)
        next    == current + 1
    IN  [store |-> storage_set(store, HUNT_COUNTER_KEY, next), id |-> next]

CLUE_KEY == "CLUE"
PROGRESS_KEY == "PROG"
PLAYERS_LIST_KEY == "PLRS"
CLUES_LIST_KEY == "CLST"

\* progress_key without the player: one key for the whole hunt.
progress_key_per_hunt(hunt_id, player) == <<PROGRESS_KEY, hunt_id>>

\* clues_list_key without the hunt: one list for all hunts.
clues_list_key_shared(hunt_id) == <<CLUES_LIST_KEY, 0>>

clue_key(hunt_id, clue_id) == <<CLUE_KEY, hunt_id, clue_id>>
progress_key(hunt_id, player) == <<PROGRESS_KEY, hunt_id, player>>
clues_list_key(hunt_id) == <<CLUES_LIST_KEY, hunt_id>>
players_list_key(hunt_id) == <<PLAYERS_LIST_KEY, hunt_id>>

get_clue(store, hunt_id, clue_id) == storage_get(store, clue_key(hunt_id, clue_id))

get_player_progress(store, hunt_id, player) ==
    storage_get(store, progress_key(hunt_id, player))

get_clue_ids_for_hunt(store, hunt_id) ==
    unwrap_or(storage_get(store, clues_list_key(hunt_id)), <<>>)

get_player_addresses_for_hunt(store, hunt_id) ==
    unwrap_or(storage_get(store, players_list_key(hunt_id)), <<>>)

\* add_clue_to_list that appends without looking for the id in the list.
add_clue_to_list_unchecked(store, hunt_id, clue_id) ==
    LET key      == clues_list_key(hunt_id)
        clue_ids == unwrap_or(storage_get(store, key), <<>>)
    IN  storage_set(store, key, Append(clue_ids, clue_id))

\* Appends clue_id to the hunt's list of clue ids unless the scan of the list
\* finds it there; the list is written only when it grows.
add_clue_to_list(store, hunt_id, clue_id) ==
    LET key      == clues_list_key(hunt_id)
        clue_ids == unwrap_or(storage_get(store, key), <<>>)
        exists   == \E i \in 1..Len(clue_ids) : clue_ids[i] = clue_id
    IN  IF ~exists THEN storage_set(store, key, Append(clue_ids, clue_id))
        ELSE store

\* add_player_to_list that puts a new player first.
add_player_to_list_front(store, hunt_id, player) ==
    LET key     == players_list_key(hunt_id)
        players == unwrap_or(storage_get(store, key), <<>>)
        exists  == \E i \in 1..Len(players) : players[i] = player
    IN  IF ~exists THEN storage_set(store, key, <<player>> \o players)
        ELSE store

add_player_to_list(store, hunt_id, player) ==
    LET key     == players_list_key(hunt_id)
        players == unwrap_or(storage_get(store, key), <<>>)
        exists  == \E i \in 1..Len(players) : players[i] = player
    IN  IF ~exists THEN storage_set(store, key, Append(players, player))
        ELSE store

\* save_clue that stores the record and leaves the list of clue ids alone.
save_clue_without_index(store, hunt_id, clue) ==
    storage_set(store, clue_key(hunt_id, clue.clue_id), clue)

save_clue(store, hunt_id, clue) ==
    add_clue_to_list(storage_set(store, clue_key(hunt_id, clue.clue_id), clue),
                     hunt_id, clue.clue_id)

save_player_progress(store, progress) ==
    add_player_to_list(storage_set(store,
                                   progress_key(progress.hunt_id, progress.player),
                                   progress),
                       progress.hunt_id, progress.player)

\* The clues of a hunt: the list of clue ids is walked from its first element
\* and the record of each id that has one is pushed to the result.
list_clues_for_hunt(store, hunt_id) ==
    LET clue_ids == get_clue_ids_for_hunt(store, hunt_id)
        found    == SelectSeq(clue_ids,
                              LAMBDA clue_id : get_clue(store, hunt_id, clue_id) # None)
    IN  [i \in 1..Len(found) |-> get_clue(store, hunt_id, found[i])[1]]

\* The progress records of a hunt, by the same walk of the list of players.
get_hunt_players(store, hunt_id) ==
    LET player_addresses == get_player_addresses_for_hunt(store, hunt_id)
        found == SelectSeq(player_addresses,
                           LAMBDA player :
                               get_player_progress(store, hunt_id, player) # None)
    IN  [i \in 1..Len(found) |-> get_player_progress(store, hunt_id, found[i])[1]]

----------------------------------------------------------------------------
(* lib.rs: HuntyCore *)

MAX_TITLE_LENGTH == 200
MAX_DESCRIPTION_LENGTH == 2000

\* What an invocation yields: the storage and the events it leaves, and the
\* Result it returns.
Outcome(store, published, result) ==
    [store |-> store, events |-> published, result |-> result]

\* create_hunt's validation with the bounds exclusive.
create_hunt_validate_exclusive(title, description) ==
    IF title = 0 THEN Some("InvalidTitle")
    ELSE IF title >= MAX_TITLE_LENGTH THEN Some("InvalidTitle")
    ELSE IF description >= MAX_DESCRIPTION_LENGTH THEN Some("InvalidDescription")
    ELSE None

\* The validation of create_hunt: the error it returns, or None.
create_hunt_validate(title, description) ==
    IF title = 0 THEN Some("InvalidTitle")
    ELSE IF title > MAX_TITLE_LENGTH THEN Some("InvalidTitle")
    ELSE IF description > MAX_DESCRIPTION_LENGTH THEN Some("InvalidDescription")
    ELSE None

\* The Hunt of create_hunt with the id the counter had before this creation.
draft_hunt_previous_id(hunt_id, creator, title, description, current_time, end_time) ==
    [ hunt_id        |-> hunt_id - 1,
      creator        |-> creator,
      title          |-> title,
      description    |-> description,
      status         |-> "Draft",
      created_at     |-> current_time,
      activated_at   |-> 0,
      end_time       |-> unwrap_or(end_time, 0),
      reward_config  |-> RewardConfig_new(0, FALSE, None, 0),
      total_clues    |-> 0,
      required_clues |-> 0 ]

\* The Hunt create_hunt builds: Draft, no clues, a zeroed reward config.
draft_hunt(hunt_id, creator, title, description, current_time, end_time) ==
    [ hunt_id        |-> hunt_id,
      creator        |-> creator,
      title          |-> title,
      description    |-> description,
      status         |-> "Draft",
      created_at     |-> current_time,
      activated_at   |-> 0,
      end_time       |-> unwrap_or(end_time, 0),
      reward_config  |-> RewardConfig_new(0, FALSE, None, 0),
      total_clues    |-> 0,
      required_clues |-> 0 ]

HuntCreatedEvent(hunt_id, creator, title) ==
    [ topics |-> <<"HuntCreated", hunt_id>>,
      data   |-> [hunt_id |-> hunt_id, creator |-> creator, title |-> title] ]

\* create_hunt that takes the hunt id before it validates its arguments.
create_hunt_id_first(store, current_time, creator, title, description, end_time) ==
    LET alloc   == next_hunt_id(store)
        invalid == create_hunt_validate(title, description)
    IN  IF invalid # None THEN Outcome(alloc.store, <<>>, Err(invalid[1]))
        ELSE Outcome(save_hunt(alloc.store,
                               draft_hunt(alloc.id, creator, title, description,
                                          current_time, end_time)),
                     <<HuntCreatedEvent(alloc.id, creator, title)>>,
                     Ok(alloc.id))

create_hunt(store, current_time, creator, title, description, end_time) ==
    LET invalid == create_hunt_validate(title, description) IN
    IF invalid # None THEN Outcome(store, <<>>, Err(invalid[1]))
    ELSE
        LET alloc == next_hunt_id(store)
            hunt  == draft_hunt(alloc.id, creator, title, description,
                                current_time, end_time)
        IN  Outcome(save_hunt(alloc.store, hunt),
                    <<HuntCreatedEvent(alloc.id, creator, title)>>,
                    Ok(alloc.id))

\* activate_hunt's checks with the status looked at before the caller.
activate_hunt_check_status_first(hunt, caller) ==
    IF hunt.status # "Draft" THEN Some("InvalidHuntStatus")
    ELSE IF caller # hunt.creator THEN Some("Unauthorized")
    ELSE IF hunt.total_clues = 0 THEN Some("NoCluesAdded")
    ELSE None

\* activate_hunt's checks with the clue count looked at first.
activate_hunt_check_clues_first(hunt, caller) ==
    IF hunt.total_clues = 0 THEN Some("NoCluesAdded")
    ELSE IF caller # hunt.creator THEN Some("Unauthorized")
    ELSE IF hunt.status # "Draft" THEN Some("InvalidHuntStatus")
    ELSE None

\* activate_hunt's checks without the check of the caller.
activate_hunt_check_any_caller(hunt, caller) ==
    IF hunt.status # "Draft" THEN Some("InvalidHuntStatus")
    ELSE IF hunt.total_clues = 0 THEN Some("NoCluesAdded")
    ELSE None

\* activate_hunt's checks without the check of the status.
activate_hunt_check_any_status(hunt, caller) ==
    IF caller # hunt.creator THEN Some("Unauthorized")
    ELSE IF hunt.total_clues = 0 THEN Some("NoCluesAdded")
    ELSE None

\* activate_hunt's checks without the look at the clue count.
activate_hunt_check_clues_unchecked(hunt, caller) ==
    IF caller # hunt.creator THEN Some("Unauthorized")
    ELSE IF hunt.status # "Draft" THEN Some("InvalidHuntStatus")
    ELSE None

\* The checks of activate_hunt on the loaded hunt, in the order of the code:
\* the error returned, or None.
activate_hunt_check(hunt, caller) ==
    IF caller # hunt.creator THEN Some("Unauthorized")
    ELSE IF hunt.status # "Draft" THEN Some("InvalidHuntStatus")
    ELSE IF hunt.total_clues = 0 THEN Some("NoCluesAdded")
    ELSE None

\* activate_hunt's update without the activation time.
activate_hunt_update_status_only(hunt, current_time) ==
    [hunt EXCEPT !.status = "Active"]

\* activate_hunt's update that keeps the time of an earlier activation.
activate_hunt_update_first_time(hunt, current_time) ==
    [hunt EXCEPT !.status = "Active",
                 !.activated_at = IF @ = 0 THEN current_time ELSE @]

activate_hunt_update(hunt, current_time) ==
    [hunt EXCEPT !.status = "Active", !.activated_at = current_time]

\* activate_hunt that stores the new status before it looks at the clue count.
activate_hunt_save_first(store, current_time, caller, hunt_id) ==
    LET found == get_hunt(store, hunt_id) IN
    IF found = None THEN Outcome(store, <<>>, Err("HuntNotFound"))
    ELSE IF caller # found[1].creator THEN Outcome(store, <<>>, Err("Unauthorized"))
    ELSE IF found[1].status # "Draft"
         THEN Outcome(store, <<>>, Err("InvalidHuntStatus"))
    ELSE
        LET hunt   == activate_hunt_update(found[1], current_time)
            stored == save_hunt(store, hunt)
            event  == [ topics |-> <<"HuntActivated", hunt_id>>,
                        data   |-> [hunt_id |-> hunt_id,
                                    activated_at |-> current_time] ]
        IN  IF found[1].total_clues = 0
            THEN Outcome(stored, <<>>, Err("NoCluesAdded"))
            ELSE Outcome(stored, <<event>>, Ok(Unit))

activate_hunt(store, current_time, caller, hunt_id) ==
    LET found == get_hunt(store, hunt_id) IN
    IF found = None THEN Outcome(store, <<>>, Err("HuntNotFound"))
    ELSE
        LET failed == activate_hunt_check(found[1], caller) IN
        IF failed # None THEN Outcome(store, <<>>, Err(failed[1]))
        ELSE
            LET hunt  == activate_hunt_update(found[1], current_time)
                event == [ topics |-> <<"HuntActivated", hunt_id>>,
                           data   |-> [hunt_id |-> hunt_id,
                                       activated_at |-> current_time] ]
            IN  Outcome(save_hunt(store, hunt), <<event>>, Ok(Unit))

\* deactivate_hunt's checks with anything but Draft taken for Active.
deactivate_hunt_check_not_draft(hunt, caller) ==
    IF caller # hunt.creator THEN Some("Unauthorized")
    ELSE IF hunt.status = "Draft" THEN Some("InvalidHuntStatus")
    ELSE None

deactivate_hunt_check(hunt, caller) ==
    IF caller # hunt.creator THEN Some("Unauthorized")
    ELSE IF hunt.status # "Active" THEN Some("InvalidHuntStatus")
    ELSE None

\* deactivate_hunt's update that also clears the activation time.
deactivate_hunt_update_clears_time(hunt) ==
    [hunt EXCEPT !.status = "Draft", !.activated_at = 0]

\* deactivate_hunt's update that also forgets the clues counted so far.
deactivate_hunt_update_clears_clues(hunt) ==
    [hunt EXCEPT !.status = "Draft", !.total_clues = 0]

deactivate_hunt_update(hunt) == [hunt EXCEPT !.status = "Draft"]

\* deactivate_hunt that publishes nothing.
deactivate_hunt_silent(store, caller, hunt_id) ==
    LET found == get_hunt(store, hunt_id) IN
    IF found = None THEN Outcome(store, <<>>, Err("HuntNotFound"))
    ELSE
        LET failed == deactivate_hunt_check(found[1], caller) IN
        IF failed # None THEN Outcome(store, <<>>, Err(failed[1]))
        ELSE Outcome(save_hunt(store, deactivate_hunt_update(found[1])),
                     <<>>, Ok(Unit))

deactivate_hunt(store, caller, hunt_id) ==
    LET found == get_hunt(store, hunt_id) IN
    IF found = None THEN Outcome(store, <<>>, Err("HuntNotFound"))
    ELSE
        LET failed == deactivate_hunt_check(found[1], caller) IN
        IF failed # None THEN Outcome(store, <<>>, Err(failed[1]))
        ELSE
            LET hunt  == deactivate_hunt_update(found[1])
                event == [ topics |-> <<"HuntDeactivated", hunt_id>>,
                           data   |-> [hunt_id |-> hunt_id] ]
            IN  Outcome(save_hunt(store, hunt), <<event>>, Ok(Unit))

\* cancel_hunt's checks without the check for a hunt already cancelled.
cancel_hunt_check_completed_only(hunt, caller) ==
    IF caller # hunt.creator THEN Some("Unauthorized")
    ELSE IF hunt.status = "Completed" THEN Some("InvalidHuntStatus")
    ELSE None

\* cancel_hunt's checks with the status looked at before the caller.
cancel_hunt_check_status_first(hunt, caller) ==
    IF hunt.status = "Completed" THEN Some("InvalidHuntStatus")
    ELSE IF hunt.status = "Cancelled" THEN Some("InvalidHuntStatus")
    ELSE IF caller # hunt.creator THEN Some("Unauthorized")
    ELSE None

cancel_hunt_check(hunt, caller) ==
    IF caller # hunt.creator THEN Some("Unauthorized")
    ELSE IF hunt.status = "Completed" THEN Some("InvalidHuntStatus")
    ELSE IF hunt.status = "Cancelled" THEN Some("InvalidHuntStatus")
    ELSE None

\* cancel_hunt's update that also closes the hunt's time window.
cancel_hunt_update_clears_end_time(hunt) ==
    [hunt EXCEPT !.status = "Cancelled", !.end_time = 0]

\* cancel_hunt's update with the wrong final status.
cancel_hunt_update_completes(hunt) == [hunt EXCEPT !.status = "Completed"]

cancel_hunt_update(hunt) == [hunt EXCEPT !.status = "Cancelled"]

cancel_hunt(store, caller, hunt_id) ==
    LET found == get_hunt(store, hunt_id) IN
    IF found = None THEN Outcome(store, <<>>, Err("HuntNotFound"))
    ELSE
        LET failed == cancel_hunt_check(found[1], caller) IN
        IF failed # None THEN Outcome(store, <<>>, Err(failed[1]))
        ELSE
            LET hunt  == cancel_hunt_update(found[1])
                event == [ topics |-> <<"HuntCancelled", hunt_id>>,
                           data   |-> [hunt_id |-> hunt_id] ]
            IN  Outcome(save_hunt(store, hunt), <<event>>, Ok(Unit))

\* Storage::increment_total_clues, the effect on the hunt of the "add clue"
\* operation: total_clues of the stored hunt goes up by one.
increment_total_clues(store, hunt_id) ==
    LET hunt == get_hunt(store, hunt_id)[1]
    IN  save_hunt(store, [hunt EXCEPT !.total_clues = hunt.total_clues + 1])

----------------------------------------------------------------------------
(* The state machine *)

EmptyStorage == [k \in {} |-> 0]

\* The record of an invocation kept in last.
Call(op, args, out) ==
    [op |-> op, args |-> args, before |-> persistent, result |-> out.result]

NoCall == [op |-> "none", args |-> <<>>, before |-> EmptyStorage, result |-> <<>>]

\* No invocations are in flight.
NoneInFlight ==
    [calls |-> <<>>, results |-> <<>>, before |-> EmptyStorage, round |-> 0]

Init ==
    /\ persistent = EmptyStorage
    /\ timestamp = 0
    /\ events = <<>>
    /\ last = NoCall
    /\ inflight = NoneInFlight

CreateHunt ==
    \E args \in CreateCalls :
        LET out == create_hunt(persistent, timestamp, args.creator, args.title,
                               args.description, args.end_time)
        IN  /\ out.result.ok => get_hunt_counter(persistent) < MaxHunts
            /\ persistent' = out.store
            /\ events' = out.events
            /\ last' = Call("create_hunt", args, out)
            /\ UNCHANGED <<timestamp, inflight>>

Transitions == {"activate_hunt", "deactivate_hunt", "cancel_hunt"}

\* The arguments of a status transition: the invoker and the hunt id.
TransitionCalls == [caller : Addresses, hunt_id : HuntIds]

ActivateHunt ==
    \E args \in TransitionCalls :
        LET out == activate_hunt(persistent, timestamp, args.caller, args.hunt_id)
        IN  /\ persistent' = out.store
            /\ events' = out.events
            /\ last' = Call("activate_hunt", args, out)
            /\ UNCHANGED <<timestamp, inflight>>

DeactivateHunt ==
    \E args \in TransitionCalls :
        LET out == deactivate_hunt(persistent, args.caller, args.hunt_id)
        IN  /\ persistent' = out.store
            /\ events' = out.events
            /\ last' = Call("deactivate_hunt", args, out)
            /\ UNCHANGED <<timestamp, inflight>>

CancelHunt ==
    \E args \in TransitionCalls :
        LET out == cancel_hunt(persistent, args.caller, args.hunt_id)
        IN  /\ persistent' = out.store
            /\ events' = out.events
            /\ last' = Call("cancel_hunt", args, out)
            /\ UNCHANGED <<timestamp, inflight>>

\* A clue is added to a stored hunt (outside the lifecycle controller).
IncrementTotalClues ==
    \E hunt_id \in HuntIds :
        /\ get_hunt(persistent, hunt_id) # None
        /\ get_hunt(persistent, hunt_id)[1].total_clues < MaxClues
        /\ persistent' = increment_total_clues(persistent, hunt_id)
        /\ events' = <<>>
        /\ last' = Call("increment_total_clues", [hunt_id |-> hunt_id],
                        [result |-> Unit])
        /\ UNCHANGED <<timestamp, inflight>>

\* The ledger closes and the next one opens, with a later timestamp and no
\* invocation in it yet.
Tick ==
    /\ timestamp < MaxTime
    /\ timestamp' = timestamp + 1
    /\ events' = <<>>
    /\ last' = [NoCall EXCEPT !.before = persistent]
    /\ UNCHANGED <<persistent, inflight>>

Next ==
    \/ CreateHunt
    \/ ActivateHunt
    \/ DeactivateHunt
    \/ CancelHunt
    \/ IncrementTotalClues
    \/ Tick

Spec == Init /\ [][Next]_vars

----------------------------------------------------------------------------
(* Invocations submitted together.  The host runs one invocation to its end *)
(* before it starts the next, in an order the callers do not choose: two     *)
(* invocations in flight are applied one after the other, either first.     *)

\* The pairs of invocations submitted together: two create_hunt calls, or two
\* status transitions on the same hunt.
ConcurrentCalls ==
    { <<[op |-> "create_hunt", args |-> a], [op |-> "create_hunt", args |-> b]>> :
          a \in CreateCalls, b \in CreateCalls }
    \cup
    { <<[op |-> x, args |-> a], [op |-> y, args |-> b]>> :
          x \in Transitions, y \in Transitions,
          <<a, b>> \in { t \in TransitionCalls \X TransitionCalls :
                              t[1].hunt_id = t[2].hunt_id } }

\* The invocation of a call on a storage.
Invoke(call, store, current_time) ==
    CASE call.op = "create_hunt" ->
             create_hunt(store, current_time, call.args.creator, call.args.title,
                         call.args.description, call.args.end_time)
      [] call.op = "activate_hunt" ->
             activate_hunt(store, current_time, call.args.caller, call.args.hunt_id)
      [] call.op = "deactivate_hunt" ->
             deactivate_hunt(store, call.args.caller, call.args.hunt_id)
      [] call.op = "cancel_hunt" ->
             cancel_hunt(store, call.args.caller, call.args.hunt_id)

\* Every invocation in flight has returned.
Idle == \A i \in DOMAIN inflight.results : inflight.results[i] # None

\* The number of create_hunt calls of a pair that pass the validation.
ValidCreates(pair) ==
    Cardinality({ i \in 1..2 :
        /\ pair[i].op = "create_hunt"
        /\ create_hunt_validate(pair[i].args.title, pair[i].args.description) = None })

\* Two invocations are submitted together.
Submit ==
    /\ Idle
    /\ inflight.round < MaxRounds
    /\ \E pair \in ConcurrentCalls :
          /\ get_hunt_counter(persistent) + ValidCreates(pair) <= MaxHunts + 1
          /\ inflight' = [ calls |-> pair, results |-> <<None, None>>,
                           before |-> persistent, round |-> inflight.round + 1 ]
    /\ events' = <<>>
    /\ last' = [NoCall EXCEPT !.before = persistent]
    /\ UNCHANGED <<persistent, timestamp>>

\* The host applies one of the invocations in flight, from its first
\* instruction to its return.
Apply ==
    \E i \in DOMAIN inflight.calls :
        /\ inflight.results[i] = None
        /\ LET call == inflight.calls[i]
               out  == Invoke(call, persistent, timestamp)
           IN  /\ persistent' = out.store
               /\ events' = out.events
               /\ last' = Call(call.op, call.args, out)
               /\ inflight' = [inflight EXCEPT !.results[i] = Some(out.result)]
        /\ UNCHANGED timestamp

\* A clue is added while no invocation is in flight.
AddClueWhenIdle == Idle /\ IncrementTotalClues

ConcurrentNext ==
    \/ Submit
    \/ Apply
    \/ AddClueWhenIdle

ConcurrentSpec == Init /\ [][ConcurrentNext]_vars

----------------------------------------------------------------------------
(* The storage layer under the operations that add clues, register players *)
(* and complete clues.                                                      *)

\* A clue with the given id and points; the texts are of length 1, the hint
\* empty, no location.
Clue(clue_id, points) ==
    [ clue_id |-> clue_id, question |-> 1, answer_hash |-> 1, points |-> points,
      is_required |-> TRUE, hint |-> 0, has_location |-> FALSE,
      location |-> Location_default ]

\* The save_clue calls that are made: in hunt 1 every clue id, the first of
\* them with every number of points; in the other hunts clue 1 only.
SaveClueCalls ==
    { c \in [hunt_id : 1..MaxHunts, clue_id : 1..MaxClueId, points : 1..MaxPoints] :
          /\ c.hunt_id # 1 => c.clue_id = 1 /\ c.points = 1
          /\ c.clue_id # 1 => c.points = 1 }

\* The players that register: both in hunt 1, the first in the other hunts.
RegisterCalls ==
    { c \in [hunt_id : 1..MaxHunts, player : Addresses] :
          c.hunt_id # 1 => c.player = "a1" }

\* The complete_clue calls that are made: the first player in hunt 1 with
\* any points for any clue; otherwise clue 1 with one point.
CompleteCalls ==
    { c \in [hunt_id : 1..MaxHunts, player : Addresses,
              clue_id : 1..MaxClueId, points : 1..MaxPoints] :
          /\ c.hunt_id # 1 => c.player = "a1"
          /\ (c.hunt_id # 1 \/ c.player # "a1") => c.clue_id = 1 /\ c.points = 1 }

\* A clue is added to a hunt, or stored again under its id.
SaveClue ==
    \E args \in SaveClueCalls :
        /\ persistent' = save_clue(persistent, args.hunt_id,
                                   Clue(args.clue_id, args.points))
        /\ last' = Call("save_clue", args, [result |-> Unit])
        /\ UNCHANGED <<timestamp, events, inflight>>

\* A player registers to a hunt: a new progress record is stored.
RegisterPlayer ==
    \E args \in RegisterCalls :
        /\ get_player_progress(persistent, args.hunt_id, args.player) = None
        /\ persistent' = save_player_progress(persistent,
                              PlayerProgress_new(args.player, args.hunt_id, timestamp))
        /\ last' = Call("register", args, [result |-> Unit])
        /\ UNCHANGED <<timestamp, events, inflight>>

\* A registered player completes a stored clue: the progress record is
\* loaded, complete_clue is applied to it and it is stored again.
CompleteClue ==
    \E args \in CompleteCalls :
        /\ get_player_progress(persistent, args.hunt_id, args.player) # None
        /\ get_clue(persistent, args.hunt_id, args.clue_id) # None
        /\ LET progress ==
                   get_player_progress(persistent, args.hunt_id, args.player)[1]
           IN  persistent' = save_player_progress(persistent,
                                 complete_clue(progress, args.clue_id, args.points))
        /\ last' = Call("complete_clue", args, [result |-> Unit])
        /\ UNCHANGED <<timestamp, events, inflight>>

StorageNext ==
    \/ SaveClue
    \/ RegisterPlayer
    \/ CompleteClue

StorageSpec == Init /\ [][StorageNext]_vars

----------------------------------------------------------------------------
(* complete_clue with points up to the largest u32, in either build *)

\* The points a clue is completed with: the ends of the u32 range.
LargePoints == {u32(0, 0), u32(0, 1), u32(U16_RANGE - 1, U16_RANGE - 2), U32_MAX}

\* The contract is built with or without overflow checks; nothing is stored.
OverflowInit ==
    /\ persistent = EmptyStorage
    /\ timestamp = 0
    /\ events = <<>>
    /\ inflight = NoneInFlight
    /\ \E overflow_checks \in BOOLEAN :
          last = [NoCall EXCEPT !.args = [overflow_checks |-> overflow_checks]]

\* A player registers to hunt 1, with the score 0 as a u32.
RegisterInBuild ==
    \E player \in Addresses :
        /\ get_player_progress(persistent, 1, player) = None
        /\ persistent' = save_player_progress(persistent,
                              [PlayerProgress_new(player, 1, timestamp) EXCEPT
                                   !.total_score = u32(0, 0)])
        /\ last' = Call("register",
                        [hunt_id |-> 1, player |-> player,
                         overflow_checks |-> last.args.overflow_checks],
                        [result |-> Ok(Unit)])
        /\ UNCHANGED <<timestamp, events, inflight>>

\* A registered player completes a clue: the progress record is loaded,
\* complete_clue runs on it and the record is stored again; a panic ends the
\* invocation and nothing is written.
CompleteClueInBuild ==
    \E player \in Addresses, clue_id \in 1..MaxClueId, points \in LargePoints :
        /\ get_player_progress(persistent, 1, player) # None
        /\ LET progress == get_player_progress(persistent, 1, player)[1]
               out == complete_clue_build(progress, clue_id, points,
                                          last.args.overflow_checks)
           IN  /\ persistent' = IF out.ok THEN save_player_progress(persistent, out.val)
                                ELSE persistent
               /\ last' = Call("complete_clue",
                               [hunt_id |-> 1, player |-> player,
                                clue_id |-> clue_id, points |-> points,
                                overflow_checks |-> last.args.overflow_checks],
                               [result |-> out])
        /\ UNCHANGED <<timestamp, events, inflight>>

OverflowNext ==
    \/ RegisterInBuild
    \/ CompleteClueInBuild

OverflowSpec == OverflowInit /\ [][OverflowNext]_vars

----------------------------------------------------------------------------
(* reward_per_winner on the reward configurations RewardConfig::new builds *)

Pools == (-MaxPool..MaxPool) \cup {10000, -10000}

\* A reward configuration is built and nothing has been asked of it.
RewardInit ==
    /\ persistent = EmptyStorage
    /\ timestamp = 0
    /\ events = <<>>
    /\ inflight = NoneInFlight
    /\ \E xlm_pool \in Pools, max_winners \in 0..MaxWinners :
          last = [NoCall EXCEPT
                      !.args = RewardConfig_new(xlm_pool, FALSE, None, max_winners)]

\* reward_per_winner is called on the configuration.
RewardPerWinner ==
    /\ last.op = "none"
    /\ last' = [last EXCEPT !.op = "reward_per_winner",
                            !.result = reward_per_winner(last.args)]
    /\ UNCHANGED <<persistent, timestamp, events, inflight>>

RewardSpec == RewardInit /\ [][RewardPerWinner]_vars

----------------------------------------------------------------------------
(* What the claims speak of *)

\* The hunt records of a storage map, whatever their ids.
HuntKeys(store) == {k \in DOMAIN store : k[1] = HUNT_KEY}

HasHunt(store, hunt_id) == get_hunt(store, hunt_id) # None
HuntAt(store, hunt_id) == get_hunt(store, hunt_id)[1]

Called(op) == last.op = op
Succeeded(op) == last.op = op /\ last.result.ok
FailedWith(op, e) == last.op = op /\ last.result = Err(e)

\* The latest invocation is a status transition on a hunt that was stored.
OnStoredHunt(op) == last.op = op /\ HasHunt(last.before, last.args.hunt_id)
TargetBefore == HuntAt(last.before, last.args.hunt_id)
TargetNow == HuntAt(persistent, last.args.hunt_id)
ByCreator == last.args.caller = TargetBefore.creator

----------------------------------------------------------------------------
(* C1..C3: create_hunt *)

\* C1: from the empty store, interleaved with any other operations, the k-th
\* successful create_hunt returns k and leaves the counter at k, the number
\* of hunts created so far; no other operation and no failed create_hunt
\* moves the counter.
C1_SequentialIds ==
    LET created_before == Cardinality(HuntKeys(last.before))
    IN  /\ Succeeded("create_hunt") =>
              /\ last.result.val = created_before + 1
              /\ get_hunt_counter(persistent) = created_before + 1
              /\ HuntKeys(persistent) =
                     HuntKeys(last.before) \cup {hunt_key(last.result.val)}
        /\ ~Succeeded("create_hunt") =>
              /\ get_hunt_counter(persistent) = get_hunt_counter(last.before)
              /\ HuntKeys(persistent) = HuntKeys(last.before)
        /\ get_hunt_counter(persistent) = Cardinality(HuntKeys(persistent))

\* The second creation returns 2 after the first hunt was activated.
C1_Witness ==
    /\ Succeeded("create_hunt")
    /\ last.result.val = 2
    /\ get_hunt_counter(persistent) = 2
    /\ HuntAt(persistent, 1).status = "Active"

\* C2: create_hunt with a title of 1..200 and a description of 0..2000
\* succeeds, and the hunt stored under the returned id is the Draft hunt of
\* the arguments: no clues, not activated, created now, zeroed reward config.
C2_CreateStoresDraft ==
    ( /\ Called("create_hunt")
      /\ last.args.title \in 1..200
      /\ last.args.description \in 0..2000 ) =>
        /\ last.result.ok
        /\ HasHunt(persistent, last.result.val)
        /\ LET hunt == HuntAt(persistent, last.result.val)
           IN  /\ hunt.hunt_id = last.result.val
               /\ hunt.status = "Draft"
               /\ hunt.total_clues = 0
               /\ hunt.required_clues = 0
               /\ hunt.activated_at = 0
               /\ hunt.created_at = timestamp
               /\ hunt.creator = last.args.creator
               /\ hunt.title = last.args.title
               /\ hunt.description = last.args.description
               /\ hunt.end_time = (IF last.args.end_time = <<>> THEN 0
                                   ELSE last.args.end_time[1])
               /\ hunt.reward_config =
                      [ xlm_pool |-> 0, nft_enabled |-> FALSE,
                        nft_contract |-> None, max_winners |-> 0,
                        claimed_count |-> 0 ]

\* A title of 200 and a description of 2000 with an end_time, after the
\* clock has moved.
C2_Witness ==
    /\ Succeeded("create_hunt")
    /\ last.args.title = 200
    /\ last.args.description = 2000
    /\ last.args.end_time = <<1>>
    /\ timestamp > 0
    /\ HuntAt(persistent, last.result.val).end_time = 1

\* C3: create_hunt fails with InvalidTitle on a title of length 0 or above
\* 200, and with InvalidDescription on a valid title and a description above
\* 2000; a failed create_hunt writes nothing (counter, hunts, every other
\* key) and publishes nothing, so the next id to be handed out is the same.
C3_InvalidCreateWritesNothing ==
    /\ ( Called("create_hunt")
         /\ (last.args.title = 0 \/ last.args.title > 200) ) =>
           last.result = Err("InvalidTitle")
    /\ ( Called("create_hunt")
         /\ last.args.title \in 1..200
         /\ last.args.description > 2000 ) =>
           last.result = Err("InvalidDescription")
    /\ ( Called("create_hunt") /\ ~last.result.ok ) =>
           /\ persistent = last.before
           /\ events = <<>>
           /\ next_hunt_id(persistent).id = next_hunt_id(last.before).id

\* A description that is too long is refused when a hunt is already stored.
C3_Witness ==
    /\ FailedWith("create_hunt", "InvalidDescription")
    /\ last.args.description = 2001
    /\ get_hunt_counter(persistent) = 1
    /\ HasHunt(persistent, 1)

----------------------------------------------------------------------------
(* C4..C7: activate_hunt *)

\* C4: activate_hunt checks existence, then the caller, then the status,
\* then the clue count: of the preconditions that fail it reports the first,
\* HuntNotFound, Unauthorized, InvalidHuntStatus, NoCluesAdded, and it
\* succeeds when none fails.
C4_ActivateCheckOrder ==
    Called("activate_hunt") =>
        last.result =
            IF ~HasHunt(last.before, last.args.hunt_id) THEN Err("HuntNotFound")
            ELSE IF ~ByCreator THEN Err("Unauthorized")
            ELSE IF TargetBefore.status # "Draft" THEN Err("InvalidHuntStatus")
            ELSE IF TargetBefore.total_clues = 0 THEN Err("NoCluesAdded")
            ELSE Ok(Unit)

\* The caller, the status and the clue count are all wrong at once.
C4_Witness ==
    /\ OnStoredHunt("activate_hunt")
    /\ ~ByCreator
    /\ TargetBefore.status = "Cancelled"
    /\ TargetBefore.total_clues = 0
    /\ last.result = Err("Unauthorized")

\* C5, as claimed: activate_hunt on a hunt without clues fails with
\* NoCluesAdded whoever calls it.
C5_NoCluesWhoeverCalls ==
    ( OnStoredHunt("activate_hunt") /\ TargetBefore.total_clues = 0 ) =>
        last.result = Err("NoCluesAdded")

\* C5, amended: activate_hunt on a hunt in Draft without clues fails with
\* NoCluesAdded when its creator calls it, and with Unauthorized when anyone
\* else does.
C5_NoCluesForCreator ==
    ( /\ OnStoredHunt("activate_hunt")
      /\ TargetBefore.status = "Draft"
      /\ TargetBefore.total_clues = 0 ) =>
        last.result = (IF ByCreator THEN Err("NoCluesAdded")
                       ELSE Err("Unauthorized"))

\* The creator is refused for the lack of clues while another hunt has one.
C5_Witness ==
    /\ OnStoredHunt("activate_hunt")
    /\ ByCreator
    /\ TargetBefore.status = "Draft"
    /\ TargetBefore.total_clues = 0
    /\ last.result = Err("NoCluesAdded")
    /\ \E other \in HuntIds :
          HasHunt(persistent, other) /\ HuntAt(persistent, other).total_clues > 0

\* C6: activate_hunt by the creator on a hunt in Draft with a clue succeeds;
\* the stored hunt is then Active with activated_at the current clock, its
\* other fields as they were, and nothing else in storage has changed.
C6_ActivateSetsActive ==
    ( /\ OnStoredHunt("activate_hunt")
      /\ ByCreator
      /\ TargetBefore.status = "Draft"
      /\ TargetBefore.total_clues > 0 ) =>
        /\ last.result = Ok(Unit)
        /\ TargetNow.status = "Active"
        /\ TargetNow.activated_at = timestamp
        /\ timestamp > 0 => TargetNow.activated_at > 0
        /\ \A f \in {"hunt_id", "creator", "title", "description", "created_at",
                     "end_time", "reward_config", "total_clues", "required_clues"} :
              TargetNow[f] = TargetBefore[f]
        /\ DOMAIN persistent = DOMAIN last.before
        /\ \A k \in DOMAIN persistent :
              k # hunt_key(last.args.hunt_id) => persistent[k] = last.before[k]

\* A hunt created at time 0 is activated at time 1.
C6_Witness ==
    /\ Succeeded("activate_hunt")
    /\ TargetBefore.activated_at = 0
    /\ TargetNow.created_at = 0
    /\ TargetNow.activated_at = 1
    /\ TargetNow.status = "Active"

\* C7: activate_hunt by anyone but the creator fails with Unauthorized, also
\* on a hunt in Draft that has a clue, and the hunt (with all of storage)
\* stays as it was.
C7_ActivateOnlyByCreator ==
    ( OnStoredHunt("activate_hunt") /\ ~ByCreator ) =>
        /\ last.result = Err("Unauthorized")
        /\ persistent = last.before
        /\ TargetNow.status = TargetBefore.status
        /\ TargetNow.activated_at = TargetBefore.activated_at

\* Every other precondition holds and the caller is not the creator.
C7_Witness ==
    /\ OnStoredHunt("activate_hunt")
    /\ ~ByCreator
    /\ TargetBefore.status = "Draft"
    /\ TargetBefore.total_clues > 0
    /\ last.result = Err("Unauthorized")
    /\ TargetNow.status = "Draft"

----------------------------------------------------------------------------
(* C8..C10: cancel_hunt, deactivate_hunt and the status of a hunt *)

\* The storage with the status of a stored hunt set to the given one: the
\* hunt as an operation outside the lifecycle controller may have left it.
WithStatus(store, hunt_id, status) ==
    save_hunt(store, [HuntAt(store, hunt_id) EXCEPT !.status = status])

StoredIds == {id \in HuntIds : HasHunt(persistent, id)}

\* C8: cancel_hunt by the creator succeeds on a hunt in Draft or Active and
\* leaves it Cancelled, and fails with InvalidHuntStatus on a hunt that is
\* Completed or Cancelled; a Cancelled hunt stays Cancelled under every
\* operation, and activate_hunt and deactivate_hunt by the creator on it
\* fail with InvalidHuntStatus.
C8_CancelIsTerminal ==
    /\ ( OnStoredHunt("cancel_hunt") /\ ByCreator
         /\ TargetBefore.status \in {"Draft", "Active"} ) =>
           /\ last.result = Ok(Unit)
           /\ TargetNow.status = "Cancelled"
    /\ ( OnStoredHunt("cancel_hunt") /\ ByCreator
         /\ TargetBefore.status \in {"Completed", "Cancelled"} ) =>
           last.result = Err("InvalidHuntStatus")
    /\ \A id \in StoredIds :
          cancel_hunt(WithStatus(persistent, id, "Completed"),
                      HuntAt(persistent, id).creator, id).result
              = Err("InvalidHuntStatus")
    /\ \A id \in HuntIds :
          ( HasHunt(last.before, id)
            /\ HuntAt(last.before, id).status = "Cancelled" ) =>
              HuntAt(persistent, id).status = "Cancelled"
    /\ ( (OnStoredHunt("activate_hunt") \/ OnStoredHunt("deactivate_hunt"))
         /\ ByCreator /\ TargetBefore.status = "Cancelled" ) =>
           /\ last.result = Err("InvalidHuntStatus")
           /\ persistent = last.before

\* The creator tries to activate a cancelled hunt that has a clue.
C8_Witness ==
    /\ OnStoredHunt("activate_hunt")
    /\ ByCreator
    /\ TargetBefore.status = "Cancelled"
    /\ TargetBefore.total_clues > 0
    /\ TargetBefore.activated_at > 0
    /\ last.result = Err("InvalidHuntStatus")
    /\ TargetNow.status = "Cancelled"

\* The changes of status the lifecycle allows, and the operation of each.
StatusChange(op, from, to) ==
    \/ op = "activate_hunt"   /\ from = "Draft"  /\ to = "Active"
    \/ op = "deactivate_hunt" /\ from = "Active" /\ to = "Draft"
    \/ op = "cancel_hunt"     /\ from = "Draft"  /\ to = "Cancelled"
    \/ op = "cancel_hunt"     /\ from = "Active" /\ to = "Cancelled"

\* C9: whatever an operation does to the status of a stored hunt is one of
\* Draft -> Active by activate_hunt, Active -> Draft by deactivate_hunt,
\* Draft -> Cancelled and Active -> Cancelled by cancel_hunt, on the hunt the
\* operation was called for; a hunt that is Cancelled or Completed keeps its
\* status under every call of the three transitions by any caller.
C9_StatusTransitions ==
    /\ \A id \in HuntIds :
          HasHunt(last.before, id) =>
              LET from == HuntAt(last.before, id).status
                  to   == HuntAt(persistent, id).status
              IN  /\ from # to =>
                        /\ StatusChange(last.op, from, to)
                        /\ last.args.hunt_id = id
                        /\ last.result.ok
                  /\ from \in {"Cancelled", "Completed"} => to = from
    /\ \A id \in StoredIds, caller \in Addresses,
          final \in {"Cancelled", "Completed"} :
          LET store == WithStatus(persistent, id, final)
          IN  /\ activate_hunt(store, timestamp, caller, id).store = store
              /\ deactivate_hunt(store, caller, id).store = store
              /\ cancel_hunt(store, caller, id).store = store

\* An Active hunt has just been cancelled while another hunt is in Draft
\* again after its activation.
C9_Witness ==
    /\ Succeeded("cancel_hunt")
    /\ TargetBefore.status = "Active"
    /\ TargetNow.status = "Cancelled"
    /\ \E other \in StoredIds :
          /\ HuntAt(persistent, other).status = "Draft"
          /\ HuntAt(persistent, other).activated_at > 0

\* C10: deactivate_hunt by the creator on an Active hunt succeeds and sets
\* the status to Draft; activated_at and every other field of the hunt, and
\* all else in storage, stay as they were, so that a hunt in Draft can have
\* activated_at # 0.
C10_DeactivateKeepsActivatedAt ==
    ( OnStoredHunt("deactivate_hunt") /\ ByCreator
      /\ TargetBefore.status = "Active" ) =>
        /\ last.result = Ok(Unit)
        /\ TargetNow = [TargetBefore EXCEPT !.status = "Draft"]
        /\ TargetNow.activated_at = TargetBefore.activated_at
        /\ persistent = save_hunt(last.before, TargetNow)

\* A hunt activated at time 1 is back in Draft with activated_at 1.
C10_Witness ==
    /\ Succeeded("deactivate_hunt")
    /\ TargetBefore.status = "Active"
    /\ TargetNow.status = "Draft"
    /\ TargetNow.activated_at = 1

----------------------------------------------------------------------------
(* C11, C12: the failures of the status transitions *)

\* What deactivate_hunt is to return for a caller on a stored hunt.
DeactivateResult(hunt, caller) ==
    IF caller # hunt.creator THEN Err("Unauthorized")
    ELSE IF hunt.status # "Active" THEN Err("InvalidHuntStatus")
    ELSE Ok(Unit)

\* What cancel_hunt is to return for a caller on a stored hunt.
CancelResult(hunt, caller) ==
    IF caller # hunt.creator THEN Err("Unauthorized")
    ELSE IF hunt.status \in {"Completed", "Cancelled"} THEN Err("InvalidHuntStatus")
    ELSE Ok(Unit)

\* C11: deactivate_hunt and cancel_hunt report HuntNotFound for an id that is
\* not stored, whoever calls; Unauthorized for a stored hunt and a caller that
\* is not its creator, whatever the status (Completed and Cancelled too);
\* InvalidHuntStatus only for the creator, on a hunt that is not Active
\* (deactivate) or that is Completed or Cancelled (cancel).
C11_DeactivateCancelCheckOrder ==
    /\ ( (Called("deactivate_hunt") \/ Called("cancel_hunt"))
         /\ ~HasHunt(last.before, last.args.hunt_id) ) =>
           last.result = Err("HuntNotFound")
    /\ OnStoredHunt("deactivate_hunt") =>
           last.result = DeactivateResult(TargetBefore, last.args.caller)
    /\ OnStoredHunt("cancel_hunt") =>
           last.result = CancelResult(TargetBefore, last.args.caller)
    /\ \A id \in StoredIds, caller \in Addresses, status \in HuntStatus :
          LET store == WithStatus(persistent, id, status)
          IN  /\ deactivate_hunt(store, caller, id).result
                     = DeactivateResult(HuntAt(store, id), caller)
              /\ cancel_hunt(store, caller, id).result
                     = CancelResult(HuntAt(store, id), caller)
    /\ \A id \in HuntIds \ StoredIds, caller \in Addresses :
          /\ deactivate_hunt(persistent, caller, id).result = Err("HuntNotFound")
          /\ cancel_hunt(persistent, caller, id).result = Err("HuntNotFound")

\* Someone who is not the creator tries to cancel a cancelled hunt.
C11_Witness ==
    /\ OnStoredHunt("cancel_hunt")
    /\ ~ByCreator
    /\ TargetBefore.status = "Cancelled"
    /\ last.result = Err("Unauthorized")

\* A storage with a clue, a registered player and their two index lists
\* beside the hunts.
WithIndexes(store, hunt_id) ==
    LET clue == [ clue_id |-> 1, question |-> 1, answer_hash |-> 1, points |-> 1,
                  is_required |-> TRUE, hint |-> 0, has_location |-> FALSE,
                  location |-> Location_default ]
    IN  save_player_progress(save_clue(store, hunt_id, clue),
                             PlayerProgress_new("a1", hunt_id, 0))

\* C12: an activate_hunt, deactivate_hunt or cancel_hunt that fails leaves
\* all of the persistent storage as it was (the hunts, the counter, the clue
\* and player records and their index lists) and publishes no event.
C12_FailedTransitionWritesNothing ==
    /\ ( last.op \in Transitions /\ ~last.result.ok ) =>
           /\ persistent = last.before
           /\ events = <<>>
    /\ \A id \in HuntIds, caller \in Addresses, status \in HuntStatus :
          LET store == IF id \in StoredIds
                       THEN WithIndexes(WithStatus(persistent, id, status), id)
                       ELSE WithIndexes(persistent, id)
              outs  == { activate_hunt(store, timestamp, caller, id),
                         deactivate_hunt(store, caller, id),
                         cancel_hunt(store, caller, id) }
          IN  \A out \in outs :
                 ~out.result.ok => out.store = store /\ out.events = <<>>

\* The creator's activation is refused for the lack of clues, after every
\* other check has passed, with two hunts and the counter in storage.
C12_Witness ==
    /\ FailedWith("activate_hunt", "NoCluesAdded")
    /\ get_hunt_counter(persistent) = 2
    /\ persistent = last.before
    /\ events = <<>>

----------------------------------------------------------------------------
(* C13, C14: invocations submitted together *)

\* The pair in flight is of two calls of the given operations.
InFlight(ops) ==
    /\ inflight.calls # <<>>
    /\ \A i \in 1..2 : inflight.calls[i].op \in ops

Returned(i) == inflight.results[i] # None
ResultOf(i) == inflight.results[i][1]

\* C13: of two create_hunt calls submitted together, in whichever order the
\* host applies them, those that succeed return different ids, each hunt is
\* stored under its own id with its own arguments, and when both have
\* returned the counter stands higher than at submission by the number of
\* successes: by two when both calls are valid.
C13_ConcurrentCreatesDistinctIds ==
    InFlight({"create_hunt"}) =>
        LET start == get_hunt_counter(inflight.before)
            oks   == {i \in 1..2 : Returned(i) /\ ResultOf(i).ok}
        IN  /\ get_hunt_counter(persistent) = start + Cardinality(oks)
            /\ \A i \in oks :
                  /\ ResultOf(i).val \in (start + 1)..(start + 2)
                  /\ ~HasHunt(inflight.before, ResultOf(i).val)
                  /\ HasHunt(persistent, ResultOf(i).val)
                  /\ LET hunt == HuntAt(persistent, ResultOf(i).val)
                         args == inflight.calls[i].args
                     IN  /\ hunt.hunt_id = ResultOf(i).val
                         /\ hunt.creator = args.creator
                         /\ hunt.title = args.title
                         /\ hunt.description = args.description
                         /\ hunt.end_time = unwrap_or(args.end_time, 0)
            /\ \A i \in oks, j \in oks : i # j => ResultOf(i).val # ResultOf(j).val
            /\ ( Idle /\ ValidCreates(inflight.calls) = 2 ) =>
                  /\ oks = {1, 2}
                  /\ get_hunt_counter(persistent) = start + 2
                  /\ HuntKeys(persistent) =
                         HuntKeys(inflight.before)
                             \cup {hunt_key(start + 1), hunt_key(start + 2)}

\* Two valid creations by different creators were submitted together when a
\* hunt was stored already; the second of the pair was applied first.
C13_Witness ==
    /\ InFlight({"create_hunt"})
    /\ Idle
    /\ get_hunt_counter(inflight.before) = 1
    /\ ResultOf(1) = Ok(3)
    /\ ResultOf(2) = Ok(2)
    /\ HuntAt(persistent, 3).creator = "a1"
    /\ HuntAt(persistent, 2).creator = "a2"
    /\ get_hunt_counter(persistent) = 3

\* What the pair in flight yields when applied to the storage of its
\* submission one call after the other, call i first: the final storage and
\* the two results.
Serial(i, j) ==
    LET first  == Invoke(inflight.calls[i], inflight.before, timestamp)
        second == Invoke(inflight.calls[j], first.store, timestamp)
    IN  [ store   |-> second.store,
          results |-> [k \in {i, j} |-> IF k = i THEN Some(first.result)
                                        ELSE Some(second.result)] ]

\* The second invocation of the pair in flight has just returned.
BothJustReturned == Idle /\ last.op \in Transitions \cup {"create_hunt"}

----------------------------------------------------------------------------
(* C15..C17: the index lists and the progress of a player *)

NoDuplicates(seq) == \A i, j \in 1..Len(seq) : i # j => seq[i] # seq[j]

Elements(seq) == {seq[i] : i \in 1..Len(seq)}

ProgressKeys(store) == {k \in DOMAIN store : k[1] = PROGRESS_KEY}

\* C15: after any sequence of save_clue and save_player_progress calls, the
\* list of clue ids and the list of player addresses of every hunt hold no
\* element twice, however often the same clue id or player was saved; each
\* list holds exactly the ids (the players) that have a record.
C15_IndexListsHaveNoDuplicates ==
    \A hunt_id \in 1..MaxHunts :
        LET clue_ids == get_clue_ids_for_hunt(persistent, hunt_id)
            players  == get_player_addresses_for_hunt(persistent, hunt_id)
        IN  /\ NoDuplicates(clue_ids)
            /\ NoDuplicates(players)
            /\ Elements(clue_ids) =
                   {c \in 1..MaxClueId : get_clue(persistent, hunt_id, c) # None}
            /\ Elements(players) =
                   {a \in Addresses : get_player_progress(persistent, hunt_id, a) # None}

\* A clue that was stored is saved again with other points, and the progress
\* of a player has been saved three times: both lists of the hunt have two
\* elements.
C15_Witness ==
    /\ Called("save_clue")
    /\ get_clue(last.before, last.args.hunt_id, last.args.clue_id) # None
    /\ get_clue(last.before, last.args.hunt_id, last.args.clue_id)[1].points
           # last.args.points
    /\ get_clue_ids_for_hunt(persistent, last.args.hunt_id) = <<2, 1>>
    /\ get_player_addresses_for_hunt(persistent, last.args.hunt_id) = <<"a2", "a1">>
    /\ get_player_progress(persistent, last.args.hunt_id, "a1")[1].completed_clues
           = <<1, 2>>

\* The progress record a complete_clue call is about, before and after.
ProgressBefore == last.before[progress_key(last.args.hunt_id, last.args.player)]
ProgressNow == persistent[progress_key(last.args.hunt_id, last.args.player)]

\* C16: complete_clue twice for the same clue, with the same or with other
\* points, leaves the total_score and the completed_clues of complete_clue
\* once; completed_clues never holds a clue id twice.
C16_CompleteClueIdempotent ==
    /\ \A k \in ProgressKeys(persistent) :
          LET progress == persistent[k]
          IN  /\ NoDuplicates(progress.completed_clues)
              /\ \A clue_id \in 1..MaxClueId, x \in 1..MaxPoints, y \in 1..MaxPoints :
                    LET once  == complete_clue(progress, clue_id, x)
                        twice == complete_clue(once, clue_id, y)
                    IN  /\ twice.total_score = once.total_score
                        /\ twice.completed_clues = once.completed_clues
                        /\ NoDuplicates(once.completed_clues)
    /\ ( Called("complete_clue")
         /\ has_completed_clue(ProgressBefore, last.args.clue_id) ) =>
           ProgressNow = ProgressBefore

\* A clue completed for one point is completed again for two: the score
\* stays at one.
C16_Witness ==
    /\ Called("complete_clue")
    /\ last.args.points = 2
    /\ ProgressBefore.completed_clues = <<last.args.clue_id>>
    /\ ProgressBefore.total_score = 1
    /\ ProgressNow.completed_clues = <<last.args.clue_id>>
    /\ ProgressNow.total_score = 1

\* The sum of the points of the clues stored under the given ids of a hunt.
RECURSIVE StoredPoints(_, _, _)
StoredPoints(store, hunt_id, clue_ids) ==
    IF clue_ids = <<>> THEN 0
    ELSE get_clue(store, hunt_id, Head(clue_ids))[1].points
             + StoredPoints(store, hunt_id, Tail(clue_ids))

\* C17, as claimed: the total_score of every stored progress is the sum of
\* the points of the clues now stored under its completed_clues.
C17_ScoreIsSumOfStoredPoints ==
    \A k \in ProgressKeys(persistent) :
        persistent[k].total_score =
            StoredPoints(persistent, persistent[k].hunt_id,
                         persistent[k].completed_clues)

\* C17, amended: the total_score of a progress is the sum of the points that
\* complete_clue was given when it added each id of completed_clues.  A new
\* progress has score 0 and no clue; complete_clue adds its points argument
\* and the clue id when the id is not in completed_clues, and nothing
\* otherwise; save_clue, also when it stores other points for a completed
\* clue, and every operation on another progress leave the record as it was.
C17_ScoreIsSumOfCreditedPoints ==
    \A k \in ProgressKeys(persistent) :
          IF k \in DOMAIN last.before
          THEN IF Called("complete_clue")
                  /\ k = progress_key(last.args.hunt_id, last.args.player)
                  /\ ~has_completed_clue(last.before[k], last.args.clue_id)
               THEN /\ persistent[k].total_score =
                           last.before[k].total_score + last.args.points
                    /\ persistent[k].completed_clues =
                           Append(last.before[k].completed_clues, last.args.clue_id)
               ELSE persistent[k] = last.before[k]
          ELSE /\ Called("register")
               /\ k = progress_key(last.args.hunt_id, last.args.player)
               /\ persistent[k].total_score = 0
               /\ persistent[k].completed_clues = <<>>

\* A clue completed for one point is stored again with two points: the score
\* of the player stays at one, the points credited at the completion.
C17_Witness ==
    /\ Called("save_clue")
    /\ last.args.points = 2
    /\ get_clue(last.before, last.args.hunt_id, last.args.clue_id) # None
    /\ get_clue(last.before, last.args.hunt_id, last.args.clue_id)[1].points = 1
    /\ get_player_progress(persistent, last.args.hunt_id, "a1") # None
    /\ LET progress == get_player_progress(persistent, last.args.hunt_id, "a1")[1]
       IN  /\ progress.completed_clues = <<last.args.clue_id>>
           /\ progress.total_score = 1

----------------------------------------------------------------------------
(* C18: reward_per_winner *)

\* C18, as claimed: reward_per_winner is 0 when max_winners is 0 and
\* otherwise the floor of xlm_pool / max_winners, for every signed xlm_pool.
C18_RewardIsFloor ==
    Called("reward_per_winner") =>
        last.result = IF last.args.max_winners = 0 THEN 0
                      ELSE last.args.xlm_pool \div last.args.max_winners

\* C18, amended: reward_per_winner is 0 when max_winners is 0 and otherwise
\* the quotient of xlm_pool by max_winners rounded toward zero: the floor for
\* xlm_pool >= 0 (3333 for 10_000 and 3), the ceiling for xlm_pool < 0; the
\* remainder left over is smaller than max_winners and of the sign of
\* xlm_pool.
C18_RewardIsTruncatedQuotient ==
    Called("reward_per_winner") =>
        LET pool    == last.args.xlm_pool
            winners == last.args.max_winners
            rest    == pool - last.result * winners
        IN  /\ winners = 0 => last.result = 0
            /\ winners > 0 =>
                  /\ IF pool >= 0 THEN 0 <= rest /\ rest < winners
                                  ELSE -winners < rest /\ rest <= 0
                  /\ pool >= 0 => last.result = pool \div winners
                  /\ pool < 0 => last.result = -((-pool) \div winners)
            /\ (pool = 10000 /\ winners = 3) => last.result = 3333

\* A pool of -10_000 for 3 winners gives -3333; the floor would be -3334.
C18_Witness ==
    /\ Called("reward_per_winner")
    /\ last.args.xlm_pool = -10000
    /\ last.args.max_winners = 3
    /\ last.result = -3333

----------------------------------------------------------------------------
(* C19, C20: what the lifecycle leaves alone *)

\* C19: under every sequence of create, activate, deactivate and cancel calls
\* every stored hunt has reward_config.claimed_count <= max_winners.
C19_ClaimedWithinWinners ==
    \A id \in StoredIds :
        HuntAt(persistent, id).reward_config.claimed_count
            <= HuntAt(persistent, id).reward_config.max_winners

\* Two hunts are stored, one cancelled after its activation and one in Draft
\* again, and no reward of either has been claimed.
C19_Witness ==
    /\ StoredIds = {1, 2}
    /\ HuntAt(persistent, 1).status = "Cancelled"
    /\ HuntAt(persistent, 1).activated_at > 0
    /\ HuntAt(persistent, 2).status = "Draft"
    /\ HuntAt(persistent, 2).activated_at > 0
    /\ \A id \in StoredIds : HuntAt(persistent, id).reward_config.claimed_count = 0

\* The fields of a hunt that are set at its creation for good.
CreationFields ==
    {"hunt_id", "creator", "title", "description", "created_at", "end_time"}

\* C20: no operation changes the hunt_id, creator, title, description,
\* created_at or end_time of a stored hunt: not activate_hunt,
\* deactivate_hunt or cancel_hunt by any caller, whatever the status of the
\* hunt, and not the creation of another hunt; a hunt stays stored.
C20_CreationFieldsImmutable ==
    /\ \A id \in HuntIds :
          HasHunt(last.before, id) =>
              /\ HasHunt(persistent, id)
              /\ \A f \in CreationFields :
                    HuntAt(persistent, id)[f] = HuntAt(last.before, id)[f]
    /\ \A id \in StoredIds, caller \in Addresses, status \in HuntStatus :
          LET store == WithStatus(persistent, id, status)
              outs  == { activate_hunt(store, timestamp, caller, id),
                         deactivate_hunt(store, caller, id),
                         cancel_hunt(store, caller, id) }
          IN  \A out \in outs, other \in StoredIds, f \in CreationFields :
                 HuntAt(out.store, other)[f] = HuntAt(persistent, other)[f]

\* A hunt created at time 0 with an end_time is cancelled at time 1 while
\* another hunt is stored: its end_time and created_at are as before.
C20_Witness ==
    /\ Succeeded("cancel_hunt")
    /\ timestamp = 1
    /\ TargetBefore.end_time = 1
    /\ TargetNow.end_time = 1
    /\ TargetNow.created_at = 0
    /\ TargetNow.status = "Cancelled"
    /\ Cardinality(StoredIds) = 2

----------------------------------------------------------------------------
(* C21..C23: the hunts over time *)

\* C21: get_hunt returns a record exactly for the ids 1..counter, the record
\* under an id has that id as its hunt_id, and a hunt that is stored stays
\* stored under every operation (a cancelled one too).
C21_HuntsNeverDeleted ==
    /\ \A id \in 0..(MaxHunts + 2) :
          HasHunt(persistent, id) <=> id \in 1..get_hunt_counter(persistent)
    /\ \A k \in HuntKeys(persistent) :
          /\ k = hunt_key(persistent[k].hunt_id)
          /\ k[2] \in 1..get_hunt_counter(persistent)
    /\ \A id \in HuntIds : HasHunt(last.before, id) => HasHunt(persistent, id)
    /\ get_hunt_counter(persistent) >= get_hunt_counter(last.before)

\* The first hunt has just been cancelled and is still returned, with the
\* second one, under its id.
C21_Witness ==
    /\ Succeeded("cancel_hunt")
    /\ last.args.hunt_id = 1
    /\ get_hunt_counter(persistent) = 2
    /\ HasHunt(persistent, 1)
    /\ HuntAt(persistent, 1).hunt_id = 1
    /\ HuntAt(persistent, 1).status = "Cancelled"
    /\ HuntAt(persistent, 2).hunt_id = 2

\* The one event a successful call of the latest operation is to publish.
ExpectedEvent ==
    CASE last.op = "create_hunt" ->
             [ topics |-> <<"HuntCreated", last.result.val>>,
               data   |-> [ hunt_id |-> last.result.val,
                            creator |-> last.args.creator,
                            title   |-> last.args.title ] ]
      [] last.op = "activate_hunt" ->
             [ topics |-> <<"HuntActivated", last.args.hunt_id>>,
               data   |-> [ hunt_id |-> last.args.hunt_id,
                            activated_at |-> timestamp ] ]
      [] last.op = "deactivate_hunt" ->
             [ topics |-> <<"HuntDeactivated", last.args.hunt_id>>,
               data   |-> [hunt_id |-> last.args.hunt_id] ]
      [] last.op = "cancel_hunt" ->
             [ topics |-> <<"HuntCancelled", last.args.hunt_id>>,
               data   |-> [hunt_id |-> last.args.hunt_id] ]

\* C22: a successful create_hunt, activate_hunt, deactivate_hunt or
\* cancel_hunt publishes exactly one event, of its kind, with the fields
\* (hunt_id, creator, title), (hunt_id, activated_at), (hunt_id), (hunt_id),
\* and the hunt record it tells of is in storage with those values; a failed
\* call and every other step publish nothing.
C22_OneEventPerSuccess ==
    /\ ( last.op \in Transitions \cup {"create_hunt"} /\ last.result.ok ) =>
           /\ events = <<ExpectedEvent>>
           /\ LET hunt == HuntAt(persistent, events[1].data.hunt_id)
              IN  /\ HasHunt(persistent, events[1].data.hunt_id)
                  /\ Called("create_hunt") =>
                        /\ hunt.creator = events[1].data.creator
                        /\ hunt.title = events[1].data.title
                        /\ hunt.status = "Draft"
                  /\ Called("activate_hunt") =>
                        /\ hunt.activated_at = events[1].data.activated_at
                        /\ hunt.status = "Active"
                  /\ Called("deactivate_hunt") => hunt.status = "Draft"
                  /\ Called("cancel_hunt") => hunt.status = "Cancelled"
    /\ ~( last.op \in Transitions \cup {"create_hunt"} /\ last.result.ok ) =>
           events = <<>>

\* The second hunt is deactivated after its activation at time 1.
C22_Witness ==
    /\ Succeeded("deactivate_hunt")
    /\ last.args.hunt_id = 2
    /\ TargetNow.activated_at = 1
    /\ events = << [ topics |-> <<"HuntDeactivated", 2>>,
                     data   |-> [hunt_id |-> 2] ] >>

\* C23: total_clues of a stored hunt never goes down; an Active hunt has a
\* clue; so activate_hunt by the creator succeeds on every hunt in Draft that
\* has a clue, and on a hunt that was Active and is in Draft again it never
\* fails with NoCluesAdded.
C23_ReactivationNeverLacksClues ==
    /\ \A id \in HuntIds :
          HasHunt(last.before, id) =>
              HuntAt(persistent, id).total_clues >= HuntAt(last.before, id).total_clues
    /\ \A id \in StoredIds :
          LET hunt == HuntAt(persistent, id)
          IN  /\ hunt.status = "Active" => hunt.total_clues > 0
              /\ hunt.activated_at > 0 => hunt.total_clues > 0
              /\ ( hunt.status = "Draft" /\ hunt.total_clues > 0 ) =>
                    activate_hunt(persistent, timestamp, hunt.creator, id).result
                        = Ok(Unit)
    /\ Succeeded("deactivate_hunt") =>
           activate_hunt(persistent, timestamp, TargetNow.creator,
                         last.args.hunt_id).result = Ok(Unit)
    /\ ( OnStoredHunt("activate_hunt") /\ ByCreator
         /\ TargetBefore.status = "Draft" /\ TargetBefore.activated_at > 0 ) =>
           last.result = Ok(Unit)

\* A hunt activated at time 1 and deactivated is activated again.
C23_Witness ==
    /\ Succeeded("activate_hunt")
    /\ TargetBefore.status = "Draft"
    /\ TargetBefore.activated_at = 1
    /\ TargetNow.status = "Active"

----------------------------------------------------------------------------
(* C24, C25, C29, C30: the index lists and what is listed from them *)

IsPrefix(short, long) ==
    /\ Len(short) <= Len(long)
    /\ \A i \in 1..Len(short) : short[i] = long[i]

\* C24: a step leaves the list of clue ids and the list of players of every
\* hunt as it was or with exactly the element just saved appended at its end;
\* so every earlier state of a list is a prefix of every later one.
C24_ListsAppendOnly ==
    \A hunt_id \in 1..MaxHunts :
        LET clues_before   == get_clue_ids_for_hunt(last.before, hunt_id)
            clues_now      == get_clue_ids_for_hunt(persistent, hunt_id)
            players_before == get_player_addresses_for_hunt(last.before, hunt_id)
            players_now    == get_player_addresses_for_hunt(persistent, hunt_id)
        IN  /\ IsPrefix(clues_before, clues_now)
            /\ IsPrefix(players_before, players_now)
            /\ \/ clues_now = clues_before
               \/ /\ Called("save_clue")
                  /\ last.args.hunt_id = hunt_id
                  /\ get_clue(last.before, hunt_id, last.args.clue_id) = None
                  /\ clues_now = Append(clues_before, last.args.clue_id)
            /\ \/ players_now = players_before
               \/ /\ Called("register")
                  /\ last.args.hunt_id = hunt_id
                  /\ players_now = Append(players_before, last.args.player)
            /\ ( Called("save_clue") /\ last.args.hunt_id = hunt_id
                 /\ get_clue(last.before, hunt_id, last.args.clue_id) # None ) =>
                   clues_now = clues_before
            /\ Called("complete_clue") => players_now = players_before

\* The second player registers after the first, and the clues were saved in
\* the order 2, 1.
C24_Witness ==
    /\ Called("register")
    /\ last.args.player = "a1"
    /\ get_player_addresses_for_hunt(last.before, 1) = <<"a2">>
    /\ get_player_addresses_for_hunt(persistent, 1) = <<"a2", "a1">>
    /\ get_clue_ids_for_hunt(persistent, 1) = <<2, 1>>

\* C25: list_clues_for_hunt returns every stored clue of the hunt exactly
\* once, in ascending clue_id order, whatever the order the clues were saved
\* in.
C25_ListedInClueIdOrder ==
    \A hunt_id \in 1..MaxHunts :
        LET clues == list_clues_for_hunt(persistent, hunt_id)
        IN  /\ Elements(clues) =
                   { get_clue(persistent, hunt_id, c)[1] :
                         c \in {d \in 1..MaxClueId :
                                    get_clue(persistent, hunt_id, d) # None} }
            /\ \A i, j \in 1..Len(clues) :
                   i < j => clues[i].clue_id < clues[j].clue_id

\* What holds of list_clues_for_hunt instead: every stored clue exactly once,
\* in the order of the list of clue ids, which is the order of first saving.
C25_ListedInInsertionOrder ==
    \A hunt_id \in 1..MaxHunts :
        LET clues == list_clues_for_hunt(persistent, hunt_id)
            clue_ids == get_clue_ids_for_hunt(persistent, hunt_id)
        IN  /\ Len(clues) = Len(clue_ids)
            /\ \A i \in 1..Len(clues) :
                   clues[i] = get_clue(persistent, hunt_id, clue_ids[i])[1]
            /\ Elements(clue_ids) =
                   {d \in 1..MaxClueId : get_clue(persistent, hunt_id, d) # None}
            /\ NoDuplicates(clue_ids)

\* Clue 2 was saved before clue 1 and comes first in the listing.
C25_Witness ==
    /\ Len(list_clues_for_hunt(persistent, 1)) = 2
    /\ list_clues_for_hunt(persistent, 1)[1].clue_id = 2
    /\ list_clues_for_hunt(persistent, 1)[2].clue_id = 1

\* C29: there is one progress record per player and hunt; saving it again
\* replaces it and adds nothing to the list of players; get_hunt_players
\* returns one record per registered player, in the order of registration,
\* each the record saved last for that player.
C29_OneProgressPerPlayer ==
    /\ \A hunt_id \in 1..MaxHunts :
          LET players == get_player_addresses_for_hunt(persistent, hunt_id)
              listed  == get_hunt_players(persistent, hunt_id)
          IN  /\ Len(listed) = Len(players)
              /\ Len(listed) =
                     Cardinality({a \in Addresses :
                         get_player_progress(persistent, hunt_id, a) # None})
              /\ \A i \in 1..Len(listed) :
                     /\ listed[i].player = players[i]
                     /\ listed[i].hunt_id = hunt_id
                     /\ Some(listed[i])
                            = get_player_progress(persistent, hunt_id, players[i])
              /\ \A i, j \in 1..Len(listed) : i # j => listed[i].player # listed[j].player
    /\ last.op \in {"register", "complete_clue"} =>
          /\ ProgressNow =
                 IF Called("register")
                 THEN PlayerProgress_new(last.args.player, last.args.hunt_id, timestamp)
                 ELSE complete_clue(ProgressBefore, last.args.clue_id, last.args.points)
          /\ \A hunt_id \in 1..MaxHunts, a \in Addresses :
                 ( hunt_id # last.args.hunt_id \/ a # last.args.player ) =>
                     get_player_progress(persistent, hunt_id, a)
                         = get_player_progress(last.before, hunt_id, a)
          /\ get_player_addresses_for_hunt(persistent, last.args.hunt_id) =
                 IF Called("register")
                 THEN Append(get_player_addresses_for_hunt(last.before,
                                                           last.args.hunt_id),
                             last.args.player)
                 ELSE get_player_addresses_for_hunt(last.before, last.args.hunt_id)

\* The first registered of two players has its record saved again: it is
\* still first, with the new score, and the other record is as it was.
C29_Witness ==
    /\ Called("complete_clue")
    /\ last.args.player = "a2"
    /\ get_player_addresses_for_hunt(persistent, 1) = <<"a2", "a1">>
    /\ get_hunt_players(persistent, 1)[1].total_score = 1
    /\ get_hunt_players(persistent, 1)[1].completed_clues = <<1>>
    /\ get_hunt_players(last.before, 1)[1].total_score = 0
    /\ get_hunt_players(persistent, 1)[2].total_score = 2

\* C30: a clue id is in a hunt's list of clue ids exactly when get_clue
\* returns a record for it, a player is in the list of players exactly when
\* get_player_progress returns one, so list_clues_for_hunt and
\* get_hunt_players return an entry for every element of their list.
C30_IndexMatchesRecords ==
    \A hunt_id \in 1..MaxHunts :
        LET clue_ids == get_clue_ids_for_hunt(persistent, hunt_id)
            players  == get_player_addresses_for_hunt(persistent, hunt_id)
        IN  /\ \A c \in 0..(MaxClueId + 1) :
                   (c \in Elements(clue_ids))
                       <=> (get_clue(persistent, hunt_id, c) # None)
            /\ \A a \in Addresses :
                   (a \in Elements(players))
                       <=> (get_player_progress(persistent, hunt_id, a) # None)
            /\ \A i \in 1..Len(clue_ids) :
                   get_clue(persistent, hunt_id, clue_ids[i])[1].clue_id = clue_ids[i]
            /\ \A i \in 1..Len(players) :
                   get_player_progress(persistent, hunt_id, players[i])[1].player
                       = players[i]
            /\ Len(list_clues_for_hunt(persistent, hunt_id)) = Len(clue_ids)
            /\ Len(get_hunt_players(persistent, hunt_id)) = Len(players)

\* Hunt 1 has two clues and two players, hunt 2 one clue and no player yet.
C30_Witness ==
    /\ Len(list_clues_for_hunt(persistent, 1)) = 2
    /\ Len(get_hunt_players(persistent, 1)) = 2
    /\ Len(list_clues_for_hunt(persistent, 2)) = 1
    /\ get_hunt_players(persistent, 2) = <<>>
    /\ get_clue(persistent, 2, 2) = None

----------------------------------------------------------------------------
(* C27, C28: the window of a hunt, and the hunts beside the one operated on *)

\* C27: is_active(now) is true exactly when the status is Active and end_time
\* is 0 or now is before end_time; end_time stays what creation made it, so
\* a hunt with an end_time other than 0 is not active at any now from
\* end_time on, in whatever status the transitions have put it, Active too.
C27_IsActiveWithinWindow ==
    /\ \A id \in StoredIds, now \in 0..(MaxTime + 1), status \in HuntStatus :
          LET hunt == HuntAt(WithStatus(persistent, id, status), id)
          IN  /\ is_active(hunt, now) <=>
                     ( status = "Active" /\ (hunt.end_time = 0 \/ now < hunt.end_time) )
              /\ ( hunt.end_time # 0 /\ now >= hunt.end_time ) => ~is_active(hunt, now)
    /\ \A id \in StoredIds, now \in 0..(MaxTime + 1) :
          LET hunt == HuntAt(persistent, id)
          IN  /\ HasHunt(last.before, id) =>
                     hunt.end_time = HuntAt(last.before, id).end_time
              /\ ( hunt.end_time # 0 /\ now >= hunt.end_time ) => ~is_active(hunt, now)
              /\ ( hunt.end_time # 0 /\ is_active(hunt, now) ) =>
                     \A later \in now..(MaxTime + 1) :
                         is_active(hunt, later) <=> later < hunt.end_time
    /\ ( Succeeded("activate_hunt") /\ TargetNow.end_time # 0
         /\ timestamp >= TargetNow.end_time ) =>
           /\ TargetNow.status = "Active"
           /\ ~is_active(TargetNow, timestamp)

\* A hunt with end_time 1 is activated at time 1: its status is Active and
\* it is not active now, while it would be at time 0.
C27_Witness ==
    /\ Succeeded("activate_hunt")
    /\ TargetNow.end_time = 1
    /\ timestamp = 1
    /\ TargetNow.status = "Active"
    /\ ~is_active(TargetNow, timestamp)
    /\ is_active(TargetNow, 0)

\* All that is stored for one hunt, as the storage functions return it.
HuntView(store, hunt_id) ==
    [ hunt     |-> get_hunt(store, hunt_id),
      clues    |-> [c \in 1..MaxClueId |-> get_clue(store, hunt_id, c)],
      progress |-> [a \in Addresses |-> get_player_progress(store, hunt_id, a)],
      clue_ids |-> get_clue_ids_for_hunt(store, hunt_id),
      players  |-> get_player_addresses_for_hunt(store, hunt_id) ]

\* The storage with a clue and a registered player in each of the hunt ids.
WithAllIndexes(store) ==
    WithIndexes(WithIndexes(WithIndexes(store, 1), MaxHunts), MaxHunts + 1)

\* The storages an operation on hunt_id by caller leaves, from store.
AfterOperationOn(store, hunt_id, caller) ==
    { activate_hunt(store, timestamp, caller, hunt_id).store,
      deactivate_hunt(store, caller, hunt_id).store,
      cancel_hunt(store, caller, hunt_id).store,
      save_player_progress(store, PlayerProgress_new(caller, hunt_id, timestamp)),
      save_player_progress(store,
          complete_clue(PlayerProgress_new(caller, hunt_id, timestamp), 2, MaxPoints)) }
    \cup { save_clue(store, hunt_id, Clue(c, MaxPoints)) : c \in 1..MaxClueId }

\* C28: activate_hunt, deactivate_hunt, cancel_hunt, save_clue and
\* save_player_progress for one hunt leave the hunt record, the clue and
\* progress records and the two lists of every other hunt as they were, and
\* create_hunt leaves all that is stored for the existing hunts as it was.
C28_OtherHuntsUntouched ==
    /\ last.op \in Transitions =>
          \A other \in HuntIds \ {last.args.hunt_id} :
              HuntView(persistent, other) = HuntView(last.before, other)
    /\ Called("create_hunt") =>
          \A other \in HuntIds :
              HasHunt(last.before, other) =>
                  HuntView(persistent, other) = HuntView(last.before, other)
    /\ LET store == WithAllIndexes(persistent)
       IN  /\ \A hunt_id \in HuntIds, caller \in Addresses :
                  \A after \in AfterOperationOn(store, hunt_id, caller) :
                      \A other \in HuntIds \ {hunt_id} :
                          HuntView(after, other) = HuntView(store, other)
           /\ \A args \in CreateCalls :
                  LET after == create_hunt(store, timestamp, args.creator, args.title,
                                           args.description, args.end_time).store
                  IN  \A other \in HuntIds :
                          HasHunt(store, other) =>
                              HuntView(after, other) = HuntView(store, other)

\* The second of two hunts is cancelled while the first is Active, and a
\* clue saved for the second leaves the clues of the first as they are.
C28_Witness ==
    /\ Succeeded("cancel_hunt")
    /\ last.args.hunt_id = 2
    /\ HasHunt(persistent, 1)
    /\ HuntAt(persistent, 1).status = "Active"
    /\ HuntView(persistent, 1) = HuntView(last.before, 1)
    /\ HuntView(persistent, 2) # HuntView(last.before, 2)
    /\ LET store == WithAllIndexes(persistent)
           after == save_clue(store, 2, Clue(2, MaxPoints))
       IN  /\ HuntView(after, 2).clue_ids = <<1, 2>>
           /\ HuntView(after, 1).clue_ids = <<1>>
           /\ HuntView(after, 1) = HuntView(store, 1)

----------------------------------------------------------------------------
(* C26: complete_clue at the end of the u32 range *)

U32s == [hi : 0..(U16_RANGE - 1), lo : 0..(U16_RANGE - 1)]

\* C26: complete_clue never fails: for every progress record and all points,
\* also where total_score + points is more than the largest u32, the call
\* returns normally, the clue is recorded and total_score is a u32.
C26_CompleteClueNeverFails ==
    Called("complete_clue") =>
        /\ last.result.ok
        /\ has_completed_clue(ProgressNow, last.args.clue_id)
        /\ ProgressNow.total_score \in U32s

\* What holds in either build: the call returns normally, with the score the
\* sum of the two, whenever the sum fits or the clue was completed before;
\* otherwise it panics and writes nothing (overflow checks) or returns with
\* the sum less 2^32 (no overflow checks).
C26_FailsOnlyOnOverflow ==
    Called("complete_clue") =>
        LET sum  == u32_add(ProgressBefore.total_score, last.args.points)
            done == has_completed_clue(ProgressBefore, last.args.clue_id)
        IN  /\ done => last.result.ok /\ ProgressNow = ProgressBefore
            /\ ( ~done /\ ~sum.overflow ) =>
                   /\ last.result.ok
                   /\ ProgressNow.total_score = sum.value
                   /\ has_completed_clue(ProgressNow, last.args.clue_id)
            /\ ( ~done /\ sum.overflow /\ last.args.overflow_checks ) =>
                   /\ ~last.result.ok
                   /\ persistent = last.before
            /\ ( ~done /\ sum.overflow /\ ~last.args.overflow_checks ) =>
                   /\ last.result.ok
                   /\ ProgressNow.total_score = sum.value
            /\ ProgressNow.total_score \in U32s

\* A player with the largest u32 as score completes another clue for one
\* point in a build with overflow checks: the call panics.
C26_Witness ==
    /\ Called("complete_clue")
    /\ last.args.overflow_checks
    /\ ProgressBefore.total_score = U32_MAX
    /\ ProgressBefore.completed_clues = <<1>>
    /\ last.args.clue_id = 2
    /\ last.args.points = u32(0, 1)
    /\ ~last.result.ok
    /\ ProgressNow = ProgressBefore

\* In a build without overflow checks the same call returns with score 0.
C26_WrapWitness ==
    /\ Called("complete_clue")
    /\ ~last.args.overflow_checks
    /\ ProgressBefore.total_score = U32_MAX
    /\ last.args.points = u32(0, 1)
    /\ last.result.ok
    /\ ProgressNow.total_score = u32(0, 0)
    /\ ProgressNow.completed_clues = <<1, 2>>

----------------------------------------------------------------------------
(* C31..C33: what the lifecycle leaves in a hunt record *)

\* C31: a hunt whose status is Active has total_clues > 0; activated_at is 0
\* in a new hunt and is written by nothing but a successful activate_hunt on
\* that hunt, which writes the clock; so activated_at is other than 0 only
\* after a successful activation, and with a clock above 0 an activated hunt
\* never has activated_at 0 again.
C31_ActiveHasCluesAndActivationTime ==
    /\ \A id \in StoredIds :
          LET hunt == HuntAt(persistent, id)
          IN  /\ hunt.status = "Active" => hunt.total_clues > 0
              /\ ~HasHunt(last.before, id) =>
                     /\ Succeeded("create_hunt")
                     /\ hunt.activated_at = 0
                     /\ hunt.status = "Draft"
              /\ ( HasHunt(last.before, id)
                   /\ hunt.activated_at # HuntAt(last.before, id).activated_at ) =>
                     /\ Succeeded("activate_hunt")
                     /\ last.args.hunt_id = id
              /\ ( HasHunt(last.before, id)
                   /\ HuntAt(last.before, id).activated_at # 0 ) =>
                     hunt.activated_at # 0
              /\ hunt.activated_at # 0 => timestamp > 0
    /\ Succeeded("activate_hunt") =>
          /\ TargetNow.activated_at = timestamp
          /\ TargetNow.total_clues > 0
          /\ timestamp > 0 => TargetNow.activated_at # 0

\* A hunt with a clue is activated for the first time, at time 1, beside a
\* hunt that was never activated.
C31_Witness ==
    /\ Succeeded("activate_hunt")
    /\ timestamp = 1
    /\ TargetBefore.activated_at = 0
    /\ TargetNow.activated_at = 1
    /\ TargetNow.status = "Active"
    /\ TargetNow.total_clues = 1
    /\ \E id \in StoredIds :
          /\ id # last.args.hunt_id
          /\ HuntAt(persistent, id).activated_at = 0
          /\ HuntAt(persistent, id).status = "Draft"

\* C32: activated_at holds the clock of the latest successful activate_hunt:
\* the call writes the clock over whatever an earlier activation left, no
\* other step writes the field, and with a clock that does not go back a
\* non-zero activated_at is at least created_at.
C32_ActivatedAtIsLatestActivation ==
    /\ Succeeded("activate_hunt") => TargetNow.activated_at = timestamp
    /\ \A id \in StoredIds :
          LET hunt == HuntAt(persistent, id)
          IN  /\ ( HasHunt(last.before, id)
                   /\ ~( Succeeded("activate_hunt") /\ last.args.hunt_id = id ) ) =>
                     hunt.activated_at = HuntAt(last.before, id).activated_at
              /\ hunt.activated_at # 0 => hunt.activated_at >= hunt.created_at
              /\ hunt.activated_at <= timestamp
              /\ ( hunt.status = "Draft" /\ hunt.total_clues > 0 ) =>
                     \A later \in timestamp..(MaxTime + 1) :
                         LET out == activate_hunt(persistent, later, hunt.creator, id)
                         IN  /\ out.result = Ok(Unit)
                             /\ HuntAt(out.store, id).activated_at = later
                             /\ HuntAt(out.store, id).activated_at
                                    >= HuntAt(out.store, id).created_at

\* A hunt activated at time 1 has been deactivated and still tells that
\* time; activated again at time 2 it tells 2.
C32_Witness ==
    /\ Succeeded("deactivate_hunt")
    /\ timestamp = 1
    /\ TargetBefore.status = "Active"
    /\ TargetNow.status = "Draft"
    /\ TargetNow.activated_at = 1
    /\ HuntAt(activate_hunt(persistent, 2, TargetNow.creator,
                            last.args.hunt_id).store,
              last.args.hunt_id).activated_at = 2

\* C33: no sequence of create_hunt, activate_hunt, deactivate_hunt and
\* cancel_hunt calls puts a hunt in status Completed: every stored hunt is in
\* Draft, Active or Cancelled, no handler stores Completed whatever the
\* caller, and no cancel_hunt call finds its hunt Completed.
C33_CompletedUnreachable ==
    /\ \A id \in StoredIds :
          HuntAt(persistent, id).status \in {"Draft", "Active", "Cancelled"}
    /\ \A id \in HuntIds : HasHunt(last.before, id) =>
          HuntAt(last.before, id).status # "Completed"
    /\ OnStoredHunt("cancel_hunt") =>
          /\ TargetBefore.status # "Completed"
          /\ ( ByCreator /\ ~last.result.ok ) => TargetBefore.status = "Cancelled"
    /\ \A id \in StoredIds, caller \in Addresses :
          \A after \in { activate_hunt(persistent, timestamp, caller, id).store,
                         deactivate_hunt(persistent, caller, id).store,
                         cancel_hunt(persistent, caller, id).store } :
              HuntAt(after, id).status \in {"Draft", "Active", "Cancelled"}
    /\ \A args \in CreateCalls :
          LET out == create_hunt(persistent, timestamp, args.creator, args.title,
                                 args.description, args.end_time)
          IN  out.result.ok => HuntAt(out.store, out.result.val).status = "Draft"

\* The creator's cancel_hunt fails with InvalidHuntStatus on a hunt that is
\* Cancelled, not Completed, while the other hunt is Active.
C33_Witness ==
    /\ FailedWith("cancel_hunt", "InvalidHuntStatus")
    /\ HasHunt(last.before, last.args.hunt_id)
    /\ ByCreator
    /\ TargetBefore.status = "Cancelled"
    /\ \E id \in StoredIds : HuntAt(persistent, id).status = "Active"
    /\ \E id \in StoredIds : HuntAt(persistent, id).activated_at = 1

====
